---- MODULE Spec2Model ----
(***************************************************************************)
(* Model of the E24LC256 driver (src/src/24LC256.h), AVR build (the #else  *)
(* branches: pageSize = 32, bufferSize = 32).                              *)
(*                                                                         *)
(* The driver is a single-threaded blocking program.  Each public method   *)
(* is modelled as a Call action followed by the steps of its body; the     *)
(* private ackPolling loop is modelled iteration by iteration.  The Wire   *)
(* transport and the EEPROM itself are the environment: a device that      *)
(* acknowledges a transaction only when it is present and not inside an    *)
(* internal write cycle, and that wraps a write inside its page.           *)
(***************************************************************************)
EXTENDS Integers, Sequences, FiniteSets, TLC

---------------------------------------------------------------------------
(* Program constants *)

\* put: const uint16_t pageSize = 32 (AVR build)
pageSize == 32

\* get: const uint8_t bufferSize = 32 (AVR build)
bufferSize == 32

\* ackPolling: micros() - startPolling < 6000
PollTimeout == 6000

---------------------------------------------------------------------------
(* Bounds of the model *)

\* number of driver calls in one run
MaxOps == 2

---------------------------------------------------------------------------
(* Fixed-width arithmetic *)

U8(x) == x % 256

U16(x) == x % 65536

\* A uint32_t is kept as its two 16-bit halves, the model checker's integers
\* being narrower than 2^32: W32(h, l) stands for h * 65536 + l.
W32(h, l) == [hi |-> h, lo |-> l]

\* x + d in uint32_t arithmetic, for 0 <= d < 65536
Add32(x, d) ==
    W32(U16(x.hi + ((x.lo + d) \div 65536)), U16(x.lo + d))

\* x - y in uint32_t arithmetic
Sub32(x, y) ==
    W32(U16(x.hi - y.hi - (IF x.lo < y.lo THEN 1 ELSE 0) + 65536),
        U16(x.lo - y.lo + 65536))

\* x < c for a uint32_t x and 0 <= c < 65536
Less32(x, c) == x.hi = 0 /\ x.lo < c

\* x < y for uint32_t x and y
Lt32(x, y) == x.hi < y.hi \/ (x.hi = y.hi /\ x.lo < y.lo)

Min(a, b) == IF a < b THEN a ELSE b

Max(a, b) == IF a > b THEN a ELSE b

\* HiByte with a fault: the shift is missing
HiByteNoShift(a) == U8(a)

\* (byte) (address >> 8)
HiByte(a) == U8(a \div 256)

\* (byte) (address & 0xFF)
LoByte(a) == a % 256

\* the first n elements of a sequence (all of it when shorter)
Take(s, n) == SubSeq(s, 1, Min(n, Len(s)))

\* the elements of s after the first n
Drop(s, n) == SubSeq(s, Min(n, Len(s)) + 1, Len(s))

---------------------------------------------------------------------------
(* Environment: the EEPROM and the bus *)

\* value of an erased EEPROM cell, and of Wire.read() with nothing to read
\* (-1 stored into a uint8_t)
NoData == 255

\* duration of one bus transaction, microseconds
TxMicros == 1500

\* The devices of the model: a device in specification (write cycle 4.5 ms),
\* a slow one (7.5 ms: one ackPolling times out, the next succeeds), a stuck
\* one (15 ms: two ackPollings in a row time out) and an absent one.
Devices ==
    { [present |-> TRUE,  twc |-> 4500],
      [present |-> TRUE,  twc |-> 7500],
      [present |-> TRUE,  twc |-> 15000],
      [present |-> FALSE, twc |-> 4500] }

\* EEPROM contents at power-up: erased, or cells 30 .. 37 holding 1 .. 8
InitMems == { << >>, [ a \in 30 .. 37 |-> a - 29 ] }

\* microsecond clock values at power-up: just before the 32-bit wrap
ClockStarts == { W32(65535, 65536 - 4000) }

VARIABLES
    size,              \* put, get: sizeof(T) as a uint16_t (initsize, size)
    device,            \* the EEPROM on the bus (fixed during a run)
    mem,               \* EEPROM cells written so far: address -> byte
    devPtr,            \* the EEPROM's internal address pointer
    busy,              \* microseconds left of the internal write cycle
    now,               \* micros()
    EEPROMStatus,      \* Status EEPROMStatus
    readBuffer,        \* uint8_t readBuffer[64] (the bytes last read into it)
    pc,                \* position in the running method ("idle": none)
    cont,              \* where ackPolling returns to
    startPolling,      \* ackPolling: uint32_t startPolling
    code,              \* ackPolling: uint8_t code
    ready,             \* value returned by the last ackPolling
    op,                \* the public method running (or last run)
    address,           \* its uint16_t address (put advances it)
    data,              \* write/update: uint8_t data
    t,                 \* put/get: the bytes of the caller's object
    ptr,               \* put/get: offset of uint8_t *ptr into the object
    remainingDataSize, \* put: uint16_t remainingDataSize
    nbytes,            \* put: uint16_t nbytes
    i,                 \* get: uint16_t i
    ret,               \* value returned to the caller
    trace,             \* history: bus transactions of the running method
    call,              \* history: arguments and device memory at the call
    last,              \* history: the previous completed call
    nops               \* history: number of calls made

vars == << size, device, mem, devPtr, busy, now, EEPROMStatus, readBuffer, pc, cont,
           startPolling, code, ready, op, address, data, t, ptr,
           remainingDataSize, nbytes, i, ret, trace, call, last, nops >>

\* content of EEPROM cell a in memory m
MemAt(m, a) == IF a \in DOMAIN m THEN m[a] ELSE NoData

\* the device's view of the world that the transport operators thread through
World == [ mem |-> mem, devPtr |-> devPtr, busy |-> busy, now |-> now,
           trace |-> trace, code |-> 1, rx |-> << >> ]

\* An entry of the history of bus transactions.  kind "tx": one
\* beginTransmission .. endTransmission with the bytes handed to Wire.write
\* (ack: endTransmission returned 0); kind "rx": one requestFrom of n bytes
\* with the bytes Wire.read returned; kind "polled": ackPolling returned ack.
\* at: the place of the driver the entry belongs to (for a poll and for
\* "polled", the place ackPolling returns to); when: micros() as the
\* transaction began.
Entry(kind, bytes, n, ack, when) ==
    [kind |-> kind, bytes |-> bytes, n |-> n, ack |-> ack,
     at |-> IF pc = "ackPolling" THEN cont ELSE pc, when |-> when]

\* dt microseconds pass
Elapse(w, dt) ==
    [w EXCEPT !.now = Add32(@, dt), !.busy = Max(0, @ - dt)]

\* EEPROM cell addressed by the j-th data byte of a write starting at a:
\* the device's address counter wraps inside the page
PageWrap(a, j) ==
    ((a \div pageSize) * pageSize) + (((a % pageSize) + j) % pageSize)

\* memory after the device stores data bytes d starting at a
Store(m, a, d) ==
    LET cells == { PageWrap(a, j) : j \in 0 .. (Len(d) - 1) }
        \* the last byte sent to a cell wins
        lastTo(c) == CHOOSE j \in 0 .. (Len(d) - 1) :
                        /\ PageWrap(a, j) = c
                        /\ \A k \in 0 .. (Len(d) - 1) :
                              PageWrap(a, k) = c => k <= j
    IN  [ c \in (DOMAIN m) \cup cells |->
              IF c \in cells THEN d[lastTo(c) + 1] ELSE m[c] ]

\* Wire.beginTransmission(I2CAddress); Wire.write(b) for each b in bytes;
\* code = Wire.endTransmission().  The transmit buffer holds pageSize bytes.
Transmit(w, bytes) ==
    LET sent == Take(bytes, pageSize)
        ack  == device.present /\ w.busy = 0
        a    == IF Len(sent) >= 2 THEN sent[1] * 256 + sent[2] ELSE w.devPtr
        d    == Drop(sent, 2)
        w1   == Elapse(w, TxMicros)
    IN  IF ack
        THEN [w1 EXCEPT
                !.mem    = IF Len(d) > 0 THEN Store(w.mem, a, d) ELSE @,
                !.devPtr = IF Len(d) > 0 THEN PageWrap(a, Len(d)) ELSE a,
                !.busy   = IF Len(d) > 0 THEN device.twc ELSE 0,
                !.code   = 0,
                !.trace  = Append(@, Entry("tx", bytes, Len(bytes), TRUE, w.now))]
        ELSE [w1 EXCEPT
                !.code   = 2,
                !.trace  = Append(@, Entry("tx", bytes, Len(bytes), FALSE, w.now))]

\* Wire.requestFrom(I2CAddress, n) followed by n calls of Wire.read():
\* the device sends the cells from its address pointer on; a device that
\* does not answer leaves the receive buffer empty and Wire.read() gives -1.
RequestFrom(w, n) ==
    LET q   == Min(n, bufferSize)
        ack == device.present /\ w.busy = 0
        got == [ j \in 1 .. n |->
                   IF ack /\ j <= q
                   THEN MemAt(w.mem, U16(w.devPtr + j - 1))
                   ELSE NoData ]
        w1  == Elapse(w, TxMicros)
    IN  [w1 EXCEPT
            !.devPtr = IF ack THEN U16(@ + q) ELSE @,
            !.rx     = got,
            !.trace  = Append(@, Entry("rx", got, n, ack, w.now))]

---------------------------------------------------------------------------
(* Inputs of the model *)

\* objects handed to put: S bytes 1, 2, ..., S
Ramp(S) == [ k \in 1 .. S |-> k % 256 ]

\* S bytes equal to the erased cell value
Blank(S) == [ k \in 1 .. S |-> NoData ]

\* S erased-looking bytes, the last one 0
TailZero(S) == [ k \in 1 .. S |-> IF k = S THEN 0 ELSE NoData ]

\* S bytes of an object about to be filled by get
Fresh(S) == [ k \in 1 .. S |-> 85 ]

\* (address, object) pairs given to put: an object over four pages from
\* address 30, the 8-byte object at 30, an object ending with the last cell
\* and one running past it
PutInputs ==
    { [address |-> 30, t |-> Ramp(70)],
      [address |-> 30, t |-> TailZero(70)],
      [address |-> 30, t |-> Ramp(8)],
      [address |-> 30, t |-> Blank(8)],
      [address |-> 65528, t |-> Ramp(8)],
      [address |-> 65530, t |-> Ramp(8)] }

\* (address, object) pairs given to get
GetInputs ==
    { [address |-> 30, t |-> Fresh(70)],
      [address |-> 30, t |-> Fresh(8)],
      [address |-> 65528, t |-> Fresh(8)],
      [address |-> 65530, t |-> Fresh(8)] }

\* addresses and values given to read, write and update
ByteAddrs == { 30, 65535 }

ByteVals == { 7, NoData }

\* what a uint8_t function that falls off its end may return
Unspecified == { 0, 7, NoData }

---------------------------------------------------------------------------
(* The driver *)

\* the world's fields become the next state
Commit(w) ==
    /\ mem' = w.mem
    /\ devPtr' = w.devPtr
    /\ busy' = w.busy
    /\ now' = w.now
    /\ trace' = w.trace

\* bool ackPolling(): uint32_t startPolling = micros(); uint8_t code = 1;
\* control reaches the loop test, to return to k
EnterAckPolling(w, k) ==
    /\ startPolling' = w.now
    /\ code' = 1
    /\ cont' = k
    /\ pc' = "ackPolling"

\* PollAgain with a fault: the deadline is computed once and compared with
\* the clock, code != 0 && micros() < startPolling + 6000
PollAgainDeadline ==
    code # 0 /\ Lt32(now, Add32(startPolling, PollTimeout))

\* PollAgain with a fault: the timeout is half of what it should be
PollAgainHalf ==
    code # 0 /\ Less32(Sub32(now, startPolling), PollTimeout \div 2)

\* ackPolling's loop test: code != 0 && micros() - startPolling < 6000
PollAgain == code # 0 /\ Less32(Sub32(now, startPolling), PollTimeout)

\* one iteration of ackPolling's loop
AckPollingLoop ==
    /\ pc = "ackPolling"
    /\ PollAgain
    /\ LET w == Transmit(World, << 0 >>)
       IN  /\ Commit(w)
           /\ code' = w.code
    /\ UNCHANGED << size, device, EEPROMStatus, readBuffer, pc, cont, startPolling,
                    ready, op, address, data, t, ptr, remainingDataSize,
                    nbytes, i, ret, call, last, nops >>

\* ackPolling: return (code == 0)
AckPollingReturn ==
    /\ pc = "ackPolling"
    /\ ~PollAgain
    /\ ready' = (code = 0)
    /\ pc' = cont
    /\ trace' = Append(trace, Entry("polled", << >>, 0, code = 0, now))
    /\ UNCHANGED << size, device, mem, devPtr, busy, now, EEPROMStatus, readBuffer,
                    cont, startPolling, code, op, address, data, t, ptr,
                    remainingDataSize, nbytes, i, ret, call, last, nops >>

\* a public method is entered: its arguments, and the history of the call
Enter(name, a, d, obj) ==
    /\ pc = "idle"
    /\ nops < MaxOps
    /\ nops' = nops + 1
    /\ op' = name
    /\ address' = a
    /\ data' = d
    /\ t' = obj
    /\ size' = U16(Len(obj))
    /\ ptr' = 0
    /\ i' = 0
    /\ ret' = << >>
    /\ ready' = FALSE
    /\ call' = [op |-> name, address |-> a, data |-> d, t |-> obj, mem |-> mem]
    /\ last' = IF nops = 0 THEN last
               ELSE [call |-> call, ret |-> ret, t |-> t, trace |-> trace]

\* a public method returns v to its caller
Return(v) ==
    /\ pc' = "idle"
    /\ ret' = v

\* void init()
CallInit ==
    /\ Enter("init", 0, 0, << >>)
    /\ EnterAckPolling(World, "init_polled")
    /\ Commit([World EXCEPT !.trace = << >>])
    /\ UNCHANGED << device, EEPROMStatus, readBuffer, remainingDataSize,
                    nbytes >>

\* statusAfter with a fault: the else branch is missing
statusAfterNoElse(found) == IF found THEN "EEPROM_FOUND" ELSE EEPROMStatus

\* init: if (ackPolling()) EEPROMStatus = EEPROM_FOUND;
\*       else EEPROMStatus = EEPROM_NOT_FOUND;
statusAfter(found) == IF found THEN "EEPROM_FOUND" ELSE "EEPROM_NOT_FOUND"

\* init, after its ackPolling has returned
InitPolled ==
    /\ pc = "init_polled"
    /\ EEPROMStatus' = statusAfter(ready)
    /\ Return(<< >>)
    /\ UNCHANGED << size, device, mem, devPtr, busy, now, readBuffer, cont,
                    startPolling, code, ready, op, address, data, t, ptr,
                    remainingDataSize, nbytes, i, trace, call, last, nops >>

\* uint8_t read(uint16_t address), after its ackPolling succeeded: the
\* address-set transaction, requestFrom of one byte, Wire.read()
readByte(w, a) ==
    RequestFrom(Transmit(w, << HiByte(a), LoByte(a) >>), 1)

\* void write(uint16_t address, uint8_t data), after its ackPolling succeeded
writeByte(w, a, d) ==
    Transmit(w, << HiByte(a), LoByte(a), U8(d) >>)

\* writeBytes with a fault: the loop stops one byte early
writeBytesShort(w, a, src, nBytes) ==
    Transmit(w, << HiByte(a), LoByte(a) >> \o Take(src, nBytes - 1))

\* void writeBytes(uint16_t address, uint8_t *ptr, uint8_t nBytes):
\* src holds the bytes ptr points at
writeBytes(w, a, src, nBytes) ==
    Transmit(w, << HiByte(a), LoByte(a) >> \o Take(src, nBytes))

\* void readBytes(uint16_t address, uint8_t *ptr, uint8_t nBytes):
\* the nBytes bytes stored through ptr are the world's rx
readBytes(w, a, nBytes) ==
    RequestFrom(Transmit(w, << HiByte(a), LoByte(a) >>), nBytes)

\* compareBytes with a fault: the result is inverted
compareBytesInverted(a, b, n) ==
    \E k \in 1 .. n : a[k] # b[k]

\* bool compareBytes(uint8_t* a, uint8_t* b, uint8_t n)
compareBytes(a, b, n) ==
    \A k \in 1 .. n : a[k] = b[k]

\* uint8_t read(uint16_t address)
CallRead ==
    \E a \in ByteAddrs :
        /\ Enter("read", a, 0, << >>)
        /\ EnterAckPolling(World, "read_polled")
        /\ Commit([World EXCEPT !.trace = << >>])
        /\ UNCHANGED << device, EEPROMStatus, readBuffer, remainingDataSize,
                        nbytes >>

\* void update(uint16_t address, uint8_t data): uint8_t a = read(address)
CallUpdate ==
    \E a \in ByteAddrs, d \in ByteVals :
        /\ Enter("update", a, d, << >>)
        /\ EnterAckPolling(World, "read_polled")
        /\ Commit([World EXCEPT !.trace = << >>])
        /\ UNCHANGED << device, EEPROMStatus, readBuffer, remainingDataSize,
                        nbytes >>

\* void write(uint16_t address, uint8_t data)
CallWrite ==
    \E a \in ByteAddrs, d \in ByteVals :
        /\ Enter("write", a, d, << >>)
        /\ EnterAckPolling(World, "write_polled")
        /\ Commit([World EXCEPT !.trace = << >>])
        /\ UNCHANGED << device, EEPROMStatus, readBuffer, remainingDataSize,
                        nbytes >>

\* read's ackPolling has returned.  Ready: the byte read is returned.  Not
\* ready: control falls off the end of read and the caller gets an
\* unspecified byte.  Inside update the byte is compared with data and
\* write(address, data) is entered when they differ.
ReadPolled ==
    /\ pc = "read_polled"
    /\ LET w == IF ready THEN readByte(World, address) ELSE World
       IN  \E v \in (IF ready THEN { w.rx[1] } ELSE Unspecified) :
             /\ Commit(w)
             /\ IF op = "update" /\ v # data
                THEN /\ EnterAckPolling(w, "write_polled")
                     /\ UNCHANGED ret
                ELSE /\ Return(IF op = "update" THEN << >> ELSE << v >>)
                     /\ UNCHANGED << cont, startPolling, code >>
    /\ UNCHANGED << size, device, EEPROMStatus, readBuffer, ready, op, address,
                    data, t, ptr, remainingDataSize, nbytes, i, call, last,
                    nops >>

\* write's ackPolling has returned
WritePolled ==
    /\ pc = "write_polled"
    /\ Commit(IF ready THEN writeByte(World, address, data) ELSE World)
    /\ Return(<< >>)
    /\ UNCHANGED << size, device, EEPROMStatus, readBuffer, cont, startPolling,
                    code, ready, op, address, data, t, ptr, remainingDataSize,
                    nbytes, i, call, last, nops >>

\* putSize with a fault: the two address bytes are not deducted
putSizeWhole == pageSize

\* putSize with a fault: the transmit buffer taken for half a page
putSizeHalf == (pageSize \div 2) - 2

\* put: const uint16_t putSize = pageSize - 2
putSize == pageSize - 2

\* remainingPageSize with a fault: the distance is taken modulo the page
remainingPageSizeMod(a) == U16(65536 - a) % pageSize

\* put: uint16_t remainingPageSize = pageSize * (address / pageSize + 1) - address
remainingPageSize(a) == U16(pageSize * ((a \div pageSize) + 1) - a)

\* chunkSize with a fault: the page boundary is not looked at
chunkSizeNoPage(a, remaining) ==
    IF remaining < putSize THEN remaining ELSE putSize

\* put: the smallest of putSize, remainingPageSize and remainingDataSize
chunkSize(a, remaining) ==
    LET n0 == putSize
        n1 == IF remainingPageSize(a) < n0 THEN remainingPageSize(a) ELSE n0
    IN  IF remaining < n1 THEN remaining ELSE n1

\* put: the top of the while loop with address a and r bytes remaining:
\* either the loop ends and t is returned, or nbytes is computed and
\* ackPolling is entered
PutLoop(w, a, r) ==
    IF r > 0
    THEN /\ nbytes' = chunkSize(a, r)
         /\ EnterAckPolling(w, "put_polled")
         /\ UNCHANGED ret
    ELSE /\ Return(t)
         /\ UNCHANGED << nbytes, cont, startPolling, code >>

\* put: address += nbytes; ptr += nbytes; remainingDataSize -= nbytes
PutAdvance(w) ==
    /\ address' = U16(address + nbytes)
    /\ ptr' = ptr + nbytes
    /\ remainingDataSize' = U16(remainingDataSize - nbytes)
    /\ PutLoop(w, U16(address + nbytes), U16(remainingDataSize - nbytes))

\* template <typename T> T &put(uint16_t address, T &t): sizeof(T) >= 1, so
\* the while loop is entered and its first nbytes computed
CallPut ==
    \E in \in PutInputs :
        /\ Enter("put", in.address, 0, in.t)
        /\ remainingDataSize' = U16(Len(in.t))
        /\ Commit([World EXCEPT !.trace = << >>])
        /\ nbytes' = chunkSize(in.address, U16(Len(in.t)))
        /\ EnterAckPolling(World, "put_polled")
        /\ UNCHANGED << device, EEPROMStatus, readBuffer >>

\* putGivesUp with a fault: the value of ackPolling is not looked at
putNeverGivesUp == FALSE

\* put: if (!ackPolling()) { return t; }
putGivesUp == ~ready

\* put: the ackPolling before the read has returned.  Not ready: return t.
\* Ready: read the chunk, compare it, write it when it differs and enter
\* the ackPolling after the write; otherwise go on with the next chunk.
PutPolled ==
    /\ pc = "put_polled"
    /\ IF putGivesUp
       THEN /\ Return(t)
            /\ UNCHANGED << mem, devPtr, busy, now, trace, readBuffer, cont,
                            startPolling, code, address, ptr,
                            remainingDataSize, nbytes >>
       ELSE LET w1  == readBytes(World, address, U8(nbytes))
                src == SubSeq(t, ptr + 1, ptr + nbytes)
            IN  /\ readBuffer' = w1.rx
                /\ IF compareBytes(w1.rx, src, U8(nbytes)) = FALSE
                   THEN LET w2 == writeBytes(w1, address, src, U8(nbytes))
                        IN  /\ Commit(w2)
                            /\ EnterAckPolling(w2, "put_written")
                            /\ UNCHANGED << address, ptr, remainingDataSize,
                                            nbytes, ret >>
                   ELSE /\ Commit(w1)
                        /\ PutAdvance(w1)
    /\ UNCHANGED << size, device, EEPROMStatus, ready, op, data, t, i, call, last,
                    nops >>

\* put: the ackPolling after the write has returned; its value is not used
PutWritten ==
    /\ pc = "put_written"
    /\ PutAdvance(World)
    /\ UNCHANGED << size, device, mem, devPtr, busy, now, trace, EEPROMStatus,
                    readBuffer, ready, op, data, t, i, call, last, nops >>

\* template <typename T> T &get(uint16_t address, T &t)
CallGet ==
    \E in \in GetInputs :
        /\ Enter("get", in.address, 0, in.t)
        /\ EnterAckPolling(World, "get_polled")
        /\ Commit([World EXCEPT !.trace = << >>])
        /\ UNCHANGED << device, EEPROMStatus, readBuffer, remainingDataSize,
                        nbytes >>

\* blockSize with a fault: the remainder is not computed
blockSizeFull(n, k) == bufferSize

\* get: uint8_t block = bufferSize; if (size - i < bufferSize) block = size - i
blockSize(n, k) ==
    IF U16(n - k) < bufferSize THEN U8(n - k) ELSE bufferSize

\* getProceeds with a fault: the result of ackPolling is not looked at
getAlwaysProceeds == TRUE

\* get: if (ackPolling()) { ... }
getProceeds == ready

\* get: its ackPolling has returned.  Not ready: return t.  Ready: one
\* iteration of the for loop (i < size), or return t when the loop is over.
GetLoop ==
    /\ pc = "get_polled"
    /\ IF getProceeds /\ i < size
       THEN LET block == blockSize(size, i)
                w     == readBytes(World, U16(address + i), block)
            IN  /\ Commit(w)
                /\ t' = [ k \in 1 .. Len(t) |->
                            IF ptr < k /\ k <= ptr + block
                            THEN w.rx[k - ptr] ELSE t[k] ]
                /\ ptr' = ptr + block
                /\ i' = U16(i + bufferSize)
                /\ UNCHANGED << pc, ret >>
       ELSE /\ Return(t)
            /\ UNCHANGED << mem, devPtr, busy, now, trace, t, ptr, i >>
    /\ UNCHANGED << size, device, EEPROMStatus, readBuffer, cont, startPolling,
                    code, ready, op, address, data, remainingDataSize, nbytes,
                    call, last, nops >>

---------------------------------------------------------------------------
(* The specification *)

\* the state after construction, the clock at power-up being one of clocks
InitAt(clocks) ==
    /\ size = 0
    /\ device \in Devices
    /\ mem \in InitMems
    /\ devPtr = 0
    /\ busy = 0
    /\ now \in clocks
    /\ EEPROMStatus = "UNKNOWN"
    /\ readBuffer = << >>
    /\ pc = "idle"
    /\ cont = "idle"
    /\ startPolling = W32(0, 0)
    /\ code = 0
    /\ ready = FALSE
    /\ op = "none"
    /\ address = 0
    /\ data = 0
    /\ t = << >>
    /\ ptr = 0
    /\ remainingDataSize = 0
    /\ nbytes = 0
    /\ i = 0
    /\ ret = << >>
    /\ trace = << >>
    /\ call = [op |-> "none", address |-> 0, data |-> 0, t |-> << >>,
               mem |-> << >>]
    /\ last = [call |-> [op |-> "none", address |-> 0, data |-> 0,
                         t |-> << >>, mem |-> << >>],
               ret |-> << >>, t |-> << >>, trace |-> << >>]
    /\ nops = 0

Init == InitAt(ClockStarts)

Next ==
    \/ CallInit
    \/ CallRead
    \/ CallWrite
    \/ CallUpdate
    \/ CallPut
    \/ CallGet
    \/ AckPollingLoop
    \/ AckPollingReturn
    \/ InitPolled
    \/ ReadPolled
    \/ WritePolled
    \/ PutPolled
    \/ PutWritten
    \/ GetLoop

Spec == Init /\ [][Next]_vars

\* clock values at power-up for the study of ackPolling: zero, values whose
\* low half carries into the high half while ackPolling runs, and values
\* from which the 32-bit counter wraps while it runs
PollClockStarts ==
    { W32(0, 0), W32(0, 65536 - 3000), W32(7, 65535),
      W32(65535, 65536 - 6000), W32(65535, 65536 - 4000), W32(65535, 65535) }

PollInit == InitAt(PollClockStarts)

\* init and write, the two methods that are ackPolling and one more
\* transaction: write leaves the device in its write cycle, which the
\* next ackPolling then meets
PollNext ==
    \/ CallInit
    \/ CallWrite
    \/ AckPollingLoop
    \/ AckPollingReturn
    \/ InitPolled
    \/ WritePolled

\* The driver is blocking code on one thread: the running method takes
\* its next step as long as it has one.
PollSpec == PollInit /\ [][PollNext]_vars /\ WF_vars(PollNext)

\* every value of put's uint16_t address
Cursors == 0 .. 65535

\* put at the top of its while loop, its cursor at any 16-bit address
PageInit ==
    /\ size = 0
    /\ device = [present |-> TRUE, twc |-> 4500]
    /\ mem = << >>
    /\ devPtr = 0
    /\ busy = 0
    /\ now = W32(0, 0)
    /\ EEPROMStatus = "UNKNOWN"
    /\ readBuffer = << >>
    /\ pc = "put_loop"
    /\ cont = "idle"
    /\ startPolling = W32(0, 0)
    /\ code = 0
    /\ ready = FALSE
    /\ op = "put"
    /\ address \in Cursors
    /\ data = 0
    /\ t = << >>
    /\ ptr = 0
    /\ remainingDataSize = 0
    /\ nbytes = 0
    /\ i = 0
    /\ ret = << >>
    /\ trace = << >>
    /\ call = [op |-> "put", address |-> 0, data |-> 0, t |-> << >>,
               mem |-> << >>]
    /\ last = [call |-> [op |-> "none", address |-> 0, data |-> 0,
                         t |-> << >>, mem |-> << >>],
               ret |-> << >>, t |-> << >>, trace |-> << >>]
    /\ nops = 1

\* put, line 94 alone: the distance from the cursor to the end of its page
\* is computed; nbytes keeps it (the value line 97 gives nbytes when the
\* distance is the smallest of the three)
PageDistance ==
    /\ pc = "put_loop"
    /\ nbytes' = remainingPageSize(address)
    /\ pc' = "put_page"
    /\ UNCHANGED << size, device, mem, devPtr, busy, now, EEPROMStatus, readBuffer,
                    cont, startPolling, code, ready, op, address, data, t,
                    ptr, remainingDataSize, i, ret, trace, call, last, nops >>

PageNext == PageDistance

\* the computation of line 94 from every cursor
PageSpec == PageInit /\ [][PageNext]_vars

\* values of sizeof(T) for the study of the loops of put and get, up to
\* 65535, the largest that the uint16_t counters initsize and size hold;
\* 65536 - bufferSize is the last multiple of bufferSize among them
LoopSizes == { 1, 70, 65536 - bufferSize, 65536 - bufferSize + 1, 65535 }

\* start addresses for the study of the loops
LoopAddrs == { 0, 30 }

\* the state after construction, on one device: the loops are studied
\* without their transactions
LoopInit ==
    /\ Init
    /\ device = [present |-> TRUE, twc |-> 4500]
    /\ mem = << >>

\* a call of put or get whose object has s bytes; the bytes themselves
\* are left out
LoopEnter(name, a, s) ==
    /\ pc = "idle"
    /\ nops = 0
    /\ nops' = 1
    /\ op' = name
    /\ address' = a
    /\ size' = s
    /\ UNCHANGED << device, mem, devPtr, busy, now, EEPROMStatus, readBuffer,
                    cont, startPolling, code, ready, data, t, ptr, nbytes, i,
                    ret, trace, call, last >>

\* put is called: uint16_t remainingDataSize = initsize, and the while
\* loop is reached
LoopCallPut ==
    \E a \in LoopAddrs, s \in LoopSizes :
        /\ LoopEnter("put", a, s)
        /\ remainingDataSize' = s
        /\ pc' = "put_count"

\* put, one iteration of the while loop, its counters alone: nbytes is
\* computed (lines 94-98); either ackPolling returns false and put returns
\* (lines 100-102) or the chunk is handled and the counters move on (lines
\* 109-111).  The loop over, put returns.  The transactions with the device
\* are left out.
LoopPut ==
    /\ pc = "put_count"
    /\ IF remainingDataSize > 0
       THEN /\ nbytes' = chunkSize(address, remainingDataSize)
            /\ \/ /\ pc' = "idle"
                  /\ UNCHANGED << address, ptr, remainingDataSize >>
               \/ /\ address' = U16(address + nbytes')
                  /\ ptr' = ptr + nbytes'
                  /\ remainingDataSize' = U16(remainingDataSize - nbytes')
                  /\ UNCHANGED pc
       ELSE /\ pc' = "idle"
            /\ UNCHANGED << address, ptr, remainingDataSize, nbytes >>
    /\ UNCHANGED << size, device, mem, devPtr, busy, now, EEPROMStatus,
                    readBuffer, cont, startPolling, code, ready, op, data, t,
                    i, ret, trace, call, last, nops >>

\* get is called and its ackPolling returns: false, get returns; true, the
\* for loop is reached
LoopCallGet ==
    \E a \in LoopAddrs, s \in LoopSizes :
        /\ LoopEnter("get", a, s)
        /\ pc' \in {"get_count", "idle"}
        /\ UNCHANGED remainingDataSize

\* get, one iteration of the for loop, its counter alone: i < size is
\* tested and i += bufferSize follows the body (line 127).  The loop over,
\* get returns.  The reads, and ptr which they move, are left out.
LoopGet ==
    /\ pc = "get_count"
    /\ IF i < size
       THEN /\ i' = U16(i + bufferSize)
            /\ UNCHANGED pc
       ELSE /\ pc' = "idle"
            /\ UNCHANGED i
    /\ UNCHANGED << size, device, mem, devPtr, busy, now, EEPROMStatus,
                    readBuffer, cont, startPolling, code, ready, op, address,
                    data, t, ptr, remainingDataSize, nbytes, ret, trace, call,
                    last, nops >>

LoopNext ==
    \/ LoopCallPut
    \/ LoopPut
    \/ LoopCallGet
    \/ LoopGet

\* The loops of put and get for objects of every size class.  The driver
\* is blocking code on one thread: the running method takes its next step
\* as long as it has one.
LoopSpec == LoopInit /\ [][LoopNext]_vars /\ WF_vars(LoopNext)

---------------------------------------------------------------------------
(* Reading the history *)

\* a readiness poll: the one-byte transaction of ackPolling
IsPoll(e) == e.kind = "tx" /\ e.n = 1

\* an address-set transaction: the two address bytes and nothing else
IsAddrSet(e) == e.kind = "tx" /\ e.n = 2

\* a write transaction: the two address bytes and data
IsWrite(e) == e.kind = "tx" /\ e.n > 2

\* a read transaction
IsRead(e) == e.kind = "rx"

\* the return of an ackPolling
IsPolled(e) == e.kind = "polled"

\* the memory address a transaction carries
TxAddr(e) == e.bytes[1] * 256 + e.bytes[2]

\* the data bytes a write transaction carries
Payload(e) == Drop(e.bytes, 2)

Writes(tr) == SelectSeq(tr, IsWrite)

Reads(tr) == SelectSeq(tr, IsRead)

AddrSets(tr) == SelectSeq(tr, IsAddrSet)

\* every ackPolling of the history returned true
AllReady(tr) == \A k \in 1 .. Len(tr) : IsPolled(tr[k]) => tr[k].ack

\* the running (or last) method has returned
Done(name) == pc = "idle" /\ op = name

\* the bytes of the device range [a, a + n) in memory m
Range(m, a, n) == [ k \in 1 .. n |-> MemAt(m, U16(a + k - 1)) ]

CeilDiv(x, y) == (x + y - 1) \div y

\* The least number of write transactions that cover s bytes from address a
\* when no payload crosses a page boundary or exceeds pageSize - 2 bytes:
\* page by page, the bytes of the range in the page over pageSize - 2.
RECURSIVE MinWrites(_, _)
MinWrites(a, s) ==
    IF s = 0 THEN 0
    ELSE LET seg == Min(s, pageSize - (a % pageSize))
         IN  CeilDiv(seg, pageSize - 2) + MinWrites(U16(a + seg), s - seg)

---------------------------------------------------------------------------
(* Claims *)

\* C1 (round trip): when a put(A, O) whose ackPollings all returned true is
\* followed by a get(A, O') of the same size whose ackPolling returned true,
\* and A + S does not exceed 65536, the object get returns is byte-equal
\* to O, whatever the device held before the put.
C1_RoundTrip ==
    ( /\ Done("get")
      /\ AllReady(trace)
      /\ last.call.op = "put"
      /\ AllReady(last.trace)
      /\ last.call.address = call.address
      /\ Len(last.call.t) = Len(call.t)
      /\ call.address + Len(call.t) <= 65536 )
    => (ret = last.call.t /\ t = last.call.t)

\* C1 witness: a 70-byte object was put over an erased device in six
\* writes and came back whole in three reads
C1_Witness ==
    /\ Done("get")
    /\ AllReady(trace)
    /\ last.call.op = "put"
    /\ AllReady(last.trace)
    /\ last.call.address = call.address
    /\ Len(last.call.t) = 70
    /\ Len(call.t) = 70
    /\ Range(last.call.mem, 30, 8) = Blank(8)
    /\ Len(Writes(last.trace)) = 6
    /\ Len(Reads(trace)) = 3
    /\ ret = Ramp(70)

\* C2 (write suppression): while put(A, O) runs on a device whose bytes at
\* [A, A + S) already equalled O's at the call, no write transaction is
\* issued; once it has returned with every ackPolling true, it has issued
\* one read per chunk, the chunks being the least cover of the range.
C2_WriteSuppression ==
    ( /\ op = "put"
      /\ Range(call.mem, call.address, Len(call.t)) = call.t )
    => /\ Writes(trace) = << >>
       /\ \A k \in 1 .. Len(trace) :
             IsPoll(trace[k]) \/ IsPolled(trace[k]) \/ IsAddrSet(trace[k])
                \/ IsRead(trace[k])
       /\ (Done("put") /\ AllReady(trace))
             => /\ Len(Reads(trace)) = MinWrites(call.address, Len(call.t))
                /\ Len(AddrSets(trace)) = Len(Reads(trace))

\* C2 witness: a second put of the 70-byte object the first put stored
\* returns after six reads and no write
C2_Witness ==
    /\ Done("put")
    /\ AllReady(trace)
    /\ call.t = Ramp(70)
    /\ Range(call.mem, call.address, 70) = call.t
    /\ Len(Reads(trace)) = 6
    /\ Writes(trace) = << >>

\* C3 (page invariant): every write transaction put issues carries at most
\* pageSize - 2 data bytes, all of them for cells of one page.
C3_WriteInsidePage ==
    op = "put" =>
        \A k \in 1 .. Len(trace) :
            IsWrite(trace[k]) =>
                /\ Len(Payload(trace[k])) <= pageSize - 2
                /\ Len(Payload(trace[k])) >= 1
                /\ TxAddr(trace[k]) \div pageSize
                     = (TxAddr(trace[k]) + Len(Payload(trace[k])) - 1)
                          \div pageSize

\* C3 witness: put has issued six writes, one of the full pageSize - 2
\* bytes and one of the two bytes that end a page
C3_Witness ==
    /\ op = "put"
    /\ \E k \in 1 .. Len(trace) :
          IsWrite(trace[k]) /\ Len(Payload(trace[k])) = pageSize - 2
    /\ \E k \in 1 .. Len(trace) :
          IsWrite(trace[k]) /\ TxAddr(trace[k]) = 62
             /\ Len(Payload(trace[k])) = 2
    /\ Len(Writes(trace)) = 6

\* the object bytes that a put chunk at device address a with n bytes holds
ChunkOf(a, n) ==
    SubSeq(call.t, U16(a - call.address + 65536) + 1,
                   U16(a - call.address + 65536) + n)

\* every chunk put has read differs from the object's bytes for it
EveryChunkDiffers ==
    \A k \in 2 .. Len(trace) :
        IsRead(trace[k]) =>
            trace[k].bytes # ChunkOf(TxAddr(trace[k - 1]), trace[k].n)

C5_ChunkedRead ==
    ( Done("get") /\ ready )
    => LET R == Reads(trace)
           A == AddrSets(trace)
           S == Len(call.t)
           p == CHOOSE k \in 1 .. Len(trace) : IsPolled(trace[k])
       IN  /\ Len(R) = CeilDiv(S, bufferSize)
           /\ Len(A) = Len(R)
           /\ Len(trace) = p + 2 * Len(R)
           /\ \A k \in 1 .. Len(R) :
                 /\ IsAddrSet(trace[p + 2 * k - 1])
                 /\ IsRead(trace[p + 2 * k])
                 /\ R[k].n <= bufferSize
                 /\ R[k].n = Min(bufferSize, S - bufferSize * (k - 1))
                 /\ TxAddr(A[k]) = U16(call.address + bufferSize * (k - 1))
           /\ t = Range(mem, call.address, S)
           /\ ret = t
           /\ mem = call.mem

\* C5 witness: get of 70 bytes from address 30 has returned the eight
\* bytes the device held there and 62 erased cells, in three reads
C5_Witness ==
    /\ Done("get")
    /\ ready
    /\ call.address = 30
    /\ Len(Reads(trace)) = 3
    /\ SubSeq(ret, 1, 8) = Ramp(8)
    /\ SubSeq(ret, 9, 70) = Blank(62)

\* the polls of the ackPolling that is running or has just returned: the
\* entries after the last entry that is not one of its polls
RECURSIVE PollRun(_)
PollRun(tr) ==
    IF tr = << >> THEN << >>
    ELSE IF IsPoll(tr[Len(tr)])
         THEN Append(PollRun(SubSeq(tr, 1, Len(tr) - 1)), tr[Len(tr)])
         ELSE << >>

\* ackPolling has just returned to its caller
JustPolled ==
    /\ trace # << >>
    /\ IsPolled(trace[Len(trace)])
    /\ pc = trace[Len(trace)].at

\* what holds of ackPolling in every state: an acknowledged poll ends the
\* loop; it has returned true exactly when its last poll was acknowledged;
\* it has returned false only with 6000 microseconds gone since it
\* started, and no poll of it began that late
AckPollingSafe ==
    /\ (pc = "ackPolling" /\ code = 0)
          => /\ ~PollAgain
             /\ trace # << >>
             /\ IsPoll(trace[Len(trace)]) /\ trace[Len(trace)].ack
    /\ pc = "ackPolling"
          => \A k \in 1 .. Len(PollRun(trace)) :
                /\ Less32(Sub32(PollRun(trace)[k].when, startPolling),
                          PollTimeout)
                /\ k < Len(PollRun(trace)) => ~PollRun(trace)[k].ack
    /\ JustPolled
          => LET run == PollRun(SubSeq(trace, 1, Len(trace) - 1))
             IN  /\ ready = trace[Len(trace)].ack
                 /\ ready <=> (run # << >> /\ run[Len(run)].ack)
                 /\ ~ready => ~Less32(Sub32(now, startPolling), PollTimeout)
                 /\ Len(run) >= 1
                 /\ \A k \in 1 .. Len(run) :
                       Less32(Sub32(run[k].when, startPolling), PollTimeout)

\* C6 (ackPolling terminates): with the clock advancing at every bus
\* transaction, across the 32-bit wrap too, ackPolling always returns: true
\* as soon as a poll is acknowledged, false once 6000 microseconds have
\* passed since it started, no poll beginning after that.
C6_AckPollingTerminates ==
    /\ []AckPollingSafe
    /\ (pc = "ackPolling") ~> (pc # "ackPolling")

\* C6 witness: ackPolling has returned false to init on an absent device
\* after four polls, the clock having wrapped past 2^32 meanwhile
C6_Witness ==
    /\ pc = "init_polled"
    /\ ~ready
    /\ startPolling.hi = 65535
    /\ now = W32(0, 2000)
    /\ Len(PollRun(SubSeq(trace, 1, Len(trace) - 1))) = 4

\* a transaction that addresses the memory: address-set, read or write
IsTransfer(e) == IsAddrSet(e) \/ IsRead(e) \/ IsWrite(e)

\* every transfer of the history comes after an ackPolling that returned
\* true, with no write between the two
GatedTransfers ==
    \A k \in 1 .. Len(trace) :
        IsTransfer(trace[k]) =>
            \E j \in 1 .. (k - 1) :
                /\ IsPolled(trace[j]) /\ trace[j].ack
                /\ \A m \in (j + 1) .. (k - 1) : ~IsWrite(trace[m])

\* no transfer of the history comes after an ackPolling that returned false
NothingAfterTimeout ==
    \A j \in 1 .. Len(trace) :
        (IsPolled(trace[j]) /\ ~trace[j].ack) =>
            \A k \in (j + 1) .. Len(trace) : ~IsTransfer(trace[k])

\* C7 (readiness gate): in read, write, update, put and get every
\* address-set, read or write transaction comes after an ackPolling that
\* returned true, with no write between the two, and after an ackPolling
\* that returned false the method issues no further transaction.
C7_ReadinessGate ==
    op \in { "read", "write", "update", "put", "get" }
        => (GatedTransfers /\ NothingAfterTimeout)

\* C8 (no identical write): no step of write, update or put issues a write
\* transaction whose payload equals the bytes the device holds at its
\* address range as the write is made, and each write comes after a read of
\* as many bytes in the same method.
C8_NoIdenticalWrite ==
    [][ \A k \in (Len(trace) + 1) .. Len(trace') :
          IsWrite(trace'[k]) =>
            /\ Payload(trace'[k])
                 # Range(mem, TxAddr(trace'[k]), Len(Payload(trace'[k])))
            /\ \E j \in 1 .. (k - 1) :
                  IsRead(trace'[j]) /\ trace'[j].n = Len(Payload(trace'[k]))
      ]_vars

\* r is a value the running method returns from a call that succeeds
SuccessValue(r) ==
    CASE op = "read"  -> Len(r) = 1 /\ r[1] \in 0 .. 255
      [] op = "write" -> r = << >>
      [] op = "put"   -> r = call.t
      [] op = "get"   -> /\ Len(r) = Len(call.t)
                         /\ \A k \in 1 .. Len(r) : r[k] \in 0 .. 255
      [] OTHER        -> FALSE

\* C9 (explicit failure): when an ackPolling has timed out inside read,
\* write, put or get, the value returned is none that a successful call
\* returns.
C9_FailureReported ==
    ( /\ pc = "idle"
      /\ op \in { "read", "write", "put", "get" }
      /\ ~AllReady(trace) )
    => ~SuccessValue(ret)

\* the number of bytes the reads of a history asked for
RECURSIVE BytesRead(_)
BytesRead(tr) ==
    IF tr = << >> THEN 0
    ELSE BytesRead(SubSeq(tr, 1, Len(tr) - 1))
           + (IF IsRead(tr[Len(tr)]) THEN tr[Len(tr)].n ELSE 0)

\* C10 (put abort): once the ackPolling before the read of a chunk has
\* returned false, put issues no further transaction and returns; the
\* object is unmodified and is what put returns; the device holds the
\* object's bytes for the chunks before that one and, for that chunk and
\* the later ones, what it held at the call.
C10_PutAbort ==
    op = "put" =>
        \A j \in 1 .. Len(trace) :
            (IsPolled(trace[j]) /\ trace[j].at = "put_polled" /\ ~trace[j].ack)
            => LET done == BytesRead(trace)
                   S    == Len(call.t)
               IN  /\ j = Len(trace)
                   /\ pc \in { "put_polled", "idle" }
                   /\ t = call.t
                   /\ pc = "idle" => ret = call.t
                   /\ done < S
                   /\ Range(mem, call.address, done) = SubSeq(call.t, 1, done)
                   /\ \A k \in (done + 1) .. S :
                         MemAt(mem, U16(call.address + k - 1))
                           = MemAt(call.mem, U16(call.address + k - 1))

\* C10 witness: put of 70 bytes at 30 has returned after the ackPolling of
\* its second chunk timed out; the two bytes of the first chunk are in the
\* device and the cells after them are still erased
C10_Witness ==
    /\ Done("put")
    /\ Len(call.t) = 70
    /\ call.mem = << >>
    /\ IsPolled(trace[Len(trace)])
    /\ trace[Len(trace)].at = "put_polled"
    /\ ~trace[Len(trace)].ack
    /\ Len(Writes(trace)) = 1
    /\ BytesRead(trace) = 2
    /\ Range(mem, 30, 2) = << 1, 2 >>
    /\ Range(mem, 32, 68) = Blank(68)
    /\ ret = Ramp(70)

---------------------------------------------------------------------------
(* C11: get calls ackPolling once *)

\* the positions of trace where an ackPolling returned
PolledAt(tr) == { k \in 1 .. Len(tr) : IsPolled(tr[k]) }

\* the positions of trace that hold a transfer (an address set, a read or a write)
TransferAt(tr) == { k \in 1 .. Len(tr) : IsTransfer(tr[k]) }

\* C11: get calls ackPolling exactly once per call, before its first read
\* and never between chunks (once the ackPolling has returned, the trace
\* holds one return of ackPolling and every transfer and no poll comes after
\* it); when that ackPolling fails, get issues no transfer and returns the
\* object it was given, every byte as it was before the call; in every
\* state of a get, the bytes not yet read keep the value they had at the call.
C11_GetPollsOnce ==
    (op = "get" /\ pc \in {"get_polled", "idle"}) =>
        /\ Cardinality(PolledAt(trace)) = 1
        /\ \A p \in PolledAt(trace) :
              /\ \A k \in 1 .. Len(trace) :
                    /\ IsPoll(trace[k]) => k < p
                    /\ IsTransfer(trace[k]) => k > p
              /\ ~trace[p].ack =>
                    /\ TransferAt(trace) = {}
                    /\ t = call.t
                    /\ pc = "idle" => ret = call.t
        /\ \A k \in 1 .. Len(t) : k > BytesRead(trace) => t[k] = call.t[k]

\* a get of 70 bytes whose ackPolling timed out after four polls has returned
\* the object untouched
C11_Witness ==
    /\ Done("get")
    /\ Len(call.t) = 70
    /\ ~ready
    /\ Len(SelectSeq(trace, IsPoll)) = 4
    /\ TransferAt(trace) = {}
    /\ ret = Fresh(70)

---------------------------------------------------------------------------
(* C12: the device status *)

\* C12: EEPROMStatus is UNKNOWN after construction; it changes only in the
\* step of init that follows init's ackPolling, so no step of read, write,
\* update, put or get changes it, whatever the device answers; when init
\* has returned, it is EEPROM_FOUND if init's ackPolling was acknowledged
\* and EEPROM_NOT_FOUND if it timed out.
C12_StatusFrame ==
    /\ EEPROMStatus = "UNKNOWN"
    /\ [][EEPROMStatus' # EEPROMStatus => pc = "init_polled" /\ op = "init"]_vars
    /\ [](Done("init") =>
            /\ IsPolled(trace[Len(trace)])
            /\ EEPROMStatus = IF trace[Len(trace)].ack
                               THEN "EEPROM_FOUND" ELSE "EEPROM_NOT_FOUND")

\* init found the device, and the put that followed was given up on a
\* timeout: the status is still EEPROM_FOUND
C12_Witness ==
    /\ last.call.op = "init"
    /\ Done("put")
    /\ ~AllReady(trace)
    /\ EEPROMStatus = "EEPROM_FOUND"

---------------------------------------------------------------------------
(* C13: update writes only a byte that differs *)

\* C13: update(address, data) issues a write transaction only if the byte
\* the device stores at address differs from data, in every execution,
\* those where the ackPolling of its read times out and the ackPolling of
\* its write is acknowledged included.
C13_UpdateWritesOnlyChange ==
    (op = "update" /\ Writes(trace) # << >>) =>
        MemAt(call.mem, call.address) # call.data

---------------------------------------------------------------------------
(* C14: the write cycle and put *)

\* the ackPolling that put calls after a write (line 107) has returned
IsSettlePolled(e) == IsPolled(e) /\ e.at = "put_written"

\* put reads a chunk only from a device that is not in a write cycle
ReadsSettled ==
    (op = "put" /\ pc = "put_polled" /\ ready) => busy = 0

---------------------------------------------------------------------------
(* C15: the distance to the page boundary *)

\* C15: for every 16-bit cursor, those of the last page where
\* pageSize * (address / pageSize + 1) reaches 65536 included, the distance
\* to the page boundary that put computes in 16-bit unsigned arithmetic is
\* pageSize - (address mod pageSize) and lies in 1 .. pageSize.
C15_PageDistance ==
    pc = "put_page" =>
        /\ nbytes = pageSize - (address % pageSize)
        /\ nbytes \in 1 .. pageSize

\* the distance from the first address of the last page, where the product
\* is 65536, has been computed: a whole page
C15_Witness ==
    /\ pc = "put_page"
    /\ address = 65536 - pageSize
    /\ pageSize * ((address \div pageSize) + 1) = 65536
    /\ nbytes = pageSize

---------------------------------------------------------------------------
(* C16: every operation runs to completion *)

\* C16: put and get terminate for every start address and every object
\* size that their 16-bit size counters can hold, whatever the polls
\* answer: a put or a get that is running eventually returns.
C16_Terminates ==
    (pc \in {"put_count", "get_count"}) ~> (pc = "idle")

---------------------------------------------------------------------------
(* C17: the frame of put *)

\* the addresses of the device range [a, a + n), wrapping at 65536
RangeAddrs(a, n) == { U16(a + k) : k \in 0 .. n - 1 }

\* C17: a put(address, t) whose ackPollings all returned true leaves the
\* device range [address, address + sizeof(T)) equal to the bytes of t and
\* every cell outside that range as it was at the call, so that what an
\* earlier put stored in a disjoint range is still there.
C17_PutFrame ==
    (Done("put") /\ AllReady(trace)) =>
        /\ Range(mem, call.address, Len(call.t)) = call.t
        /\ \A a \in (DOMAIN mem \cup DOMAIN call.mem)
                        \ RangeAddrs(call.address, Len(call.t)) :
              MemAt(mem, a) = MemAt(call.mem, a)

\* two puts to disjoint ranges, the first crossing a page boundary, have
\* returned: both objects are stored, and so are the cells written before
\* the first
C17_Witness ==
    /\ Done("put")
    /\ AllReady(trace)
    /\ last.call.op = "put"
    /\ AllReady(last.trace)
    /\ last.call.address = 30
    /\ call.address = 65528
    /\ Writes(trace) # << >>
    /\ Len(Writes(last.trace)) = 2
    /\ Range(mem, 30, 8) = last.call.t
    /\ Range(mem, 65528, 8) = call.t
    /\ 37 \in DOMAIN last.call.mem
    /\ MemAt(mem, 37) = last.call.t[8]

---------------------------------------------------------------------------
(* C18: the wire format *)

\* the transactions the driver opened on the device
TxAt(tr) == { k \in 1 .. Len(tr) : tr[k].kind = "tx" }

\* the first memory address that the transaction at position k of trace
\* accesses: the address of the call for read, write and update; for put
\* and get, the address of the call plus the bytes of the chunks before
\* (a write of put comes after the read of its own chunk)
FirstAddr(k) ==
    LET before == BytesRead(SubSeq(trace, 1, k - 1))
    IN  IF op \in {"read", "write", "update"} THEN call.address
        ELSE IF IsWrite(trace[k])
             THEN U16(call.address + before - (trace[k].n - 2))
             ELSE U16(call.address + before)

\* the transaction at position k begins with two address bytes, the high
\* byte first, of the first memory address accessed, and carries
\* 0 to pageSize - 2 data bytes after them
Addressed(k) ==
    /\ trace[k].n = Len(trace[k].bytes)
    /\ trace[k].n >= 2
    /\ trace[k].n - 2 <= pageSize - 2
    /\ trace[k].bytes[1] = FirstAddr(k) \div 256
    /\ trace[k].bytes[2] = FirstAddr(k) % 256

\* C18 as stated: every transaction the driver opens is a readiness poll
\* that carries no byte, or begins with the two address bytes, high byte
\* first, of the first memory address accessed, followed by 0 to
\* pageSize - 2 data bytes.
C18_WireFormatEmptyPoll ==
    \A k \in TxAt(trace) : trace[k].bytes = << >> \/ Addressed(k)

\* C18, amended: every transaction the driver opens is a readiness poll
\* that carries the single byte 0, or begins with the two address bytes,
\* high byte first, of the first memory address accessed, followed by 0 to
\* pageSize - 2 data bytes.
C18_WireFormat ==
    \A k \in TxAt(trace) : trace[k].bytes = << 0 >> \/ Addressed(k)

\* a put has issued polls, an address-set transaction for address 32 and
\* a write of pageSize - 2 data bytes there; another call has addressed a
\* cell of the last page, whose high address byte is 255
C18_Witness ==
    /\ op = "put"
    /\ \E k \in TxAt(trace) : trace[k].bytes = << 0 >>
    /\ \E k \in TxAt(trace) : trace[k].bytes = << 0, 32 >>
    /\ \E k \in TxAt(trace) :
          /\ trace[k].n = pageSize
          /\ SubSeq(trace[k].bytes, 1, 2) = << 0, 32 >>
    /\ \E k \in TxAt(last.trace) :
          /\ last.trace[k].n >= 2
          /\ last.trace[k].bytes[1] = 255

---------------------------------------------------------------------------
(* C19: put is idempotent *)

\* the running put repeats the put before it, whose ackPollings all
\* returned true
RepeatedPut ==
    /\ op = "put"
    /\ last.call.op = "put"
    /\ AllReady(last.trace)
    /\ call.address = last.call.address
    /\ call.t = last.call.t

\* C19: after a put(address, t) whose ackPollings all returned true, a put
\* of the same object at the same address that follows at once issues no
\* write transaction and leaves the whole device memory as it was; when it
\* has returned it has issued exactly one read per chunk, its ackPollings
\* having all returned true.
C19_PutIdempotent ==
    RepeatedPut =>
        /\ Writes(trace) = << >>
        /\ mem = call.mem
        /\ AllReady(trace)
        /\ pc = "idle" =>
              /\ Len(Reads(trace)) = MinWrites(call.address, Len(call.t))
              /\ Len(AddrSets(trace)) = Len(Reads(trace))
              /\ BytesRead(trace) = Len(call.t)

\* the 70-byte object has been put twice at address 30: six writes the
\* first time, six reads and no write the second time
C19_Witness ==
    /\ RepeatedPut
    /\ pc = "idle"
    /\ Len(call.t) = 70
    /\ Len(Writes(last.trace)) = 6
    /\ Len(Reads(trace)) = 6
    /\ Writes(trace) = << >>

====
